---- MODULE Spec2Model ----
(***************************************************************************)
(* openrouter-key-manager: the credential client (ky based, with retry and *)
(* error mapping), the key selector and the batch commands driven by the   *)
(* command line (delete, enable, disable, set-limit, rotate and their      *)
(* file-driven bulk variants), and the client's deleteKey by name.         *)
(*                                                                         *)
(* Names are sequences of one-character strings, hashes are positive       *)
(* numbers (0 stands for an option that was not given / an empty string),  *)
(* a limit of NullLimit stands for null.                                   *)
(***************************************************************************)
EXTENDS Integers, Sequences, FiniteSets, TLC

VARIABLES
    opts,        \* the command and its options, fixed for the run
    phase,       \* Idle, Resolving, AwaitingConfirmation, Executing, Completed, Failed
                 \* (deleteKey by name: Finding, Deleting)
    resolveFor,  \* which caller of getSelectedKeys awaits the listing: "preview" or "run"
    preview,     \* the keys passed to confirmAction
    printed,     \* the lines confirmAction wrote before the prompt
    answer,      \* the prompt's answer: "none", "yes", "no"
    targets,     \* the list the batch loop iterates over
    idx,         \* position of the loop in targets (0 before the loop)
    step,        \* the request of the current loop iteration
    keyDetails,  \* rotate: the record returned by getKey
    succeeded,   \* deleted / modified / updated / rotated
    failed,      \* errors
    thrown,      \* message of the error that reached handleCommandError ("" if none)
    remote,      \* the credentials held by the remote service, in listing order
    nextHash,    \* the hash the remote service gives to the next created key
    call,        \* the client method in progress
    callState,   \* none, sending, waiting, ok, failed
    retryCount,  \* ky's retry counter of the call
    attempts,    \* fetches issued for the call
    nWaits,      \* backoff waits completed for the call
    delayMs,     \* the delay ky computed for the pending retry
    waited,      \* ms elapsed between the last failed attempt and the next one
    lastResp,    \* outcome of the last attempt of the call
    callValue,   \* parsed body of the successful response
    callError,   \* the error request() throws to its caller
    headers,     \* the headers of the request ky sends for the current attempt
    requested,   \* the kinds of request sent over the network so far in the run
    trace        \* history: the outcomes of the attempts of the run, in order
                 \* (kept only in the runs that start with an empty trace)

runVars == <<phase, resolveFor, preview, printed, answer, targets, idx, step, keyDetails,
             succeeded, failed, thrown>>
callVars == <<call, callState, retryCount, attempts, nWaits, delayMs, waited,
              lastResp, callValue, callError, headers>>
vars == <<opts, runVars, callVars, remote, nextHash, requested, trace>>

----------------------------------------------------------------------------
(* Program constants: src/lib/api-client.ts lines 9-17.                     *)

DEFAULT_MAX_RETRIES == 3
DEFAULT_TIMEOUT_MS == 30000
DEFAULT_RATE_LIMIT_DELAY_MS == 5000
MILLISECONDS_PER_SECOND == 1000
MAX_BACKOFF_MS == 60000
INITIAL_BACKOFF_MS == 1000
MAX_RETRY_DELAY_MS == 30000
RETRYABLE_STATUS_CODES == {429, 500, 502, 503, 504}

(* ky's default retry.afterStatusCodes, which the client does not override. *)
KyAfterStatusCodes == {413, 429, 503}

----------------------------------------------------------------------------
(* Bounds of the model.                                                     *)

MaxFileLen == 2          \* longest key file
MaxAttempt == 8          \* largest attempt count the backoff delay is computed for
MaxPreviewLen == 7       \* longest key file that is previewed

(* limit: number | null *)
NullLimit == -1
Min(a, b) == IF a < b THEN a ELSE b
Max(a, b) == IF a > b THEN a ELSE b
Pow2(n) == 2 ^ n

----------------------------------------------------------------------------
(* The remote provisioning service.                                         *)

Key(h, n, l, d) == [hash |-> h, name |-> n, limit |-> l, disabled |-> d]
NoKey == Key(0, <<>>, NullLimit, FALSE)

InitialKeys ==
    << Key(1, <<"a", "x">>, 10, FALSE),
       Key(2, <<"a", "y">>, NullLimit, TRUE),
       Key(3, <<"b", "x">>, 20, FALSE) >>

HasHash(keys, h) == \E i \in DOMAIN keys : keys[i].hash = h
KeyOf(keys, h) == keys[CHOOSE i \in DOMAIN keys : keys[i].hash = h]
WithoutHash(keys, h) == SelectSeq(keys, LAMBDA k : k.hash # h)
Patched(keys, h, f, v) ==
    [i \in DOMAIN keys |-> IF keys[i].hash = h THEN [keys[i] EXCEPT ![f] = v] ELSE keys[i]]

(* A request of the client; for a listing the disabled field carries the   *)
(* include_disabled query parameter.                                       *)
Request(op, h, n, l, d) == [op |-> op, hash |-> h, name |-> n, limit |-> l, disabled |-> d]
NoCall == Request("none", 0, <<>>, NullLimit, FALSE)

Body(ks, k) == [keys |-> ks, key |-> k]
NoBody == Body(<<>>, NoKey)

(* What the service does with a request it processes: the status, the body *)
(* and its credentials afterwards.                                         *)
Serve(req, keys, nh) ==
    LET reply(st, b, ks, n) == [status |-> st, body |-> b, keys |-> ks, nextHash |-> n]
        notFound == reply(404, NoBody, keys, nh)
        listed == IF req.disabled THEN keys
                  ELSE SelectSeq(keys, LAMBDA k : ~k.disabled)
    IN  CASE req.op = "list" -> reply(200, Body(listed, NoKey), keys, nh)
          [] req.op = "create" ->
                LET k == Key(nh, req.name, req.limit, FALSE)
                IN  reply(200, Body(<<>>, k), Append(keys, k), nh + 1)
          [] req.op = "get" ->
                IF HasHash(keys, req.hash)
                THEN reply(200, Body(<<>>, KeyOf(keys, req.hash)), keys, nh)
                ELSE notFound
          [] req.op = "delete" ->
                IF HasHash(keys, req.hash)
                THEN reply(200, NoBody, WithoutHash(keys, req.hash), nh)
                ELSE notFound
          [] req.op = "patchDisabled" ->
                IF HasHash(keys, req.hash)
                THEN reply(200, NoBody, Patched(keys, req.hash, "disabled", req.disabled), nh)
                ELSE notFound
          [] req.op = "patchLimit" ->
                IF HasHash(keys, req.hash)
                THEN reply(200, NoBody, Patched(keys, req.hash, "limit", req.limit), nh)
                ELSE notFound

(* The body of a response that is not ok: whether it parses as JSON, its   *)
(* nested error.message and its top-level message ("" when absent), and    *)
(* whether its text has white space that JSON.stringify would not write.   *)
ErrorBody(json, nested, flat, spaced) ==
    [json |-> json, nested |-> nested, flat |-> flat, spaced |-> spaced]

(* The error envelope of the service: { "error": { "message": ... } }.     *)
Envelope == ErrorBody(TRUE, "nested", "", FALSE)

(* The outcome of one attempt as the client sees it.                       *)
Response(kind, st, ra, rs) ==
    [kind |-> kind, status |-> st, retryAfter |-> ra, reset |-> rs, body |-> Envelope]
WithBody(resp, b) == [resp EXCEPT !.body = b]
NoResponse == Response("none", 0, 0, 0)

(* Failures the network or the service may answer an attempt with instead  *)
(* of processing it: retryAfter / reset of 0 mean the header is absent.    *)
Faults ==
    { Response("http", 400, 0, 0),
      Response("http", 401, 0, 0),
      Response("http", 429, 0, 0),
      Response("http", 429, 2, 0),
      Response("http", 429, 0, 3),
      Response("http", 503, 0, 0),
      Response("timeout", 0, 0, 0),
      Response("network", 0, 0, 0) }

(* Math.random() * INITIAL_BACKOFF_MS lies in [0, INITIAL_BACKOFF_MS): the *)
(* two ends in whole milliseconds.                                         *)
Jitters == {0, INITIAL_BACKOFF_MS - 1}

(* Date.now() read by calculateRateLimitDelay, in ms: before and after the *)
(* reset time of the faults.                                               *)
NowValues == {MILLISECONDS_PER_SECOND, 5 * MILLISECONDS_PER_SECOND}

----------------------------------------------------------------------------
(* The credential client: src/lib/api-client.ts.                           *)

(* An error: its class, statusCode (0: undefined), the fixed part of its   *)
(* message and the text the message ends with (<<>>: none).                *)
Error(cls, st, msg) == [class |-> cls, status |-> st, message |-> msg, detail |-> <<>>]
WithDetail(err, d) == [err EXCEPT !.detail = d]
NoError == Error("none", 0, "")

IsOk(resp) == resp.kind = "http" /\ resp.status >= 200 /\ resp.status < 300

(* The texts parseErrorMessage can return: a message field of the body,    *)
(* or the body's text, as received or as JSON.stringify writes it.         *)
Field(text) == <<"field", text>>
Text(spaced) == <<"text", spaced>>
Returned(text) == [threw |-> FALSE, text |-> text]
Threw == [threw |-> TRUE, text |-> <<>>]

(* parseErrorMessage, lines 167-184. response.json() reads the body; when  *)
(* the body is not JSON it rejects, and the response.text() of the catch   *)
(* block rejects too because the body has been read already (TypeError).   *)
parseErrorMessage(body) ==
    IF body.json
    THEN IF body.nested # "" THEN Returned(Field(body.nested))
         ELSE IF body.flat # "" THEN Returned(Field(body.flat))
         ELSE Returned(Text(FALSE))
    ELSE Threw

(* Faulty variant: the hook lets a 404 answer through.                     *)
AfterResponseIgnores404(resp) ==
    IF IsOk(resp) \/ resp.status = 404 THEN NoError
    ELSE Error("ApiError", resp.status, "API request failed")

(* afterResponse hook, lines 111-146: an ok response is returned, every    *)
(* other one throws an ApiError whose message depends on the status and    *)
(* ends with the text parseErrorMessage returned; an error thrown by       *)
(* parseErrorMessage leaves the hook as it is.                             *)
AfterResponse(resp) ==
    IF IsOk(resp) THEN NoError
    ELSE LET parsed == parseErrorMessage(resp.body)
             mapped ==
                CASE resp.status = 400 -> Error("ApiError", 400, "Bad request")
                  [] resp.status = 401 ->
                        Error("ApiError", 401, "Unauthorized: Invalid API key")
                  [] resp.status = 404 -> Error("ApiError", 404, "Not found")
                  [] resp.status = 429 -> Error("ApiError", 429, "Rate limit exceeded")
                  [] resp.status = 500 -> Error("ApiError", 500, "Server error")
                  [] OTHER -> Error("ApiError", resp.status, "API request failed")
         IN  IF parsed.threw THEN Error("TypeError", 0, "Body is unusable")
             ELSE WithDetail(mapped, parsed.text)

(* What one run of ky's fetch function throws (NoError: it returns the     *)
(* response). The hooks run inside the function that ky retries, so an     *)
(* error thrown by afterResponse is what ky's retry logic sees; ky itself  *)
(* throws HTTPError only for a non-ok response that the hooks let through. *)
Thrown(resp) ==
    CASE resp.kind = "timeout" -> Error("TimeoutError", 0, "Request timed out")
      [] resp.kind = "network" -> Error("TypeError", 0, "fetch failed")
      [] OTHER ->
            LET hooked == AfterResponse(resp)
            IN  IF hooked # NoError THEN hooked
                ELSE IF ~IsOk(resp) THEN Error("HTTPError", resp.status, "HTTPError")
                ELSE NoError

(* Faulty variant: the exponential term is not capped.                     *)
RetryDelayNoCap(attemptCount, jitter) ==
    INITIAL_BACKOFF_MS * Pow2(attemptCount - 1) + jitter

(* retry.delay, lines 67-72.                                               *)
RetryDelay(attemptCount, jitter) ==
    Min(INITIAL_BACKOFF_MS * Pow2(attemptCount - 1), MAX_RETRY_DELAY_MS) + jitter

(* ky's decision after a failed attempt, under the retry options of lines  *)
(* 59-73: count is the retry counter after its increment. A timeout is     *)
(* never retried; an HTTPError is retried only for the listed status codes *)
(* and waits for Retry-After when the response has one; every other error  *)
(* is retried after retry.delay capped by backoffLimit.                    *)
NoRetry == [retry |-> FALSE, ms |-> 0]
RetryIn(ms) == [retry |-> TRUE, ms |-> ms]

(* Faulty variant: the budget is compared with >=, one retry short.                *)
KyRetryDecisionOneShort(err, resp, count, jitter) ==
    IF count >= DEFAULT_MAX_RETRIES \/ err.class = "TimeoutError" THEN NoRetry
    ELSE RetryIn(Min(MAX_BACKOFF_MS, RetryDelay(count, jitter)))

(* Faulty variant: a 5xx answer is given up on at once.                            *)
KyRetryDecisionNo5xx(err, resp, count, jitter) ==
    IF count > DEFAULT_MAX_RETRIES \/ err.class = "TimeoutError" THEN NoRetry
    ELSE IF err.status >= 500 THEN NoRetry
    ELSE RetryIn(Min(MAX_BACKOFF_MS, RetryDelay(count, jitter)))

(* Faulty variant: a retry whose delay would exceed four seconds is given  *)
(* up, so the jitter decides whether the third retry is made.              *)
KyRetryDecisionDelayLimit(err, resp, count, jitter) ==
    IF count > DEFAULT_MAX_RETRIES \/ err.class = "TimeoutError" THEN NoRetry
    ELSE IF RetryDelay(count, jitter) > 4 * INITIAL_BACKOFF_MS THEN NoRetry
    ELSE RetryIn(Min(MAX_BACKOFF_MS, RetryDelay(count, jitter)))

KyRetryDecision(err, resp, count, jitter) ==
    IF count > DEFAULT_MAX_RETRIES \/ err.class = "TimeoutError" THEN NoRetry
    ELSE IF err.class = "HTTPError" /\ err.status \notin RETRYABLE_STATUS_CODES THEN NoRetry
    ELSE IF /\ err.class = "HTTPError"
            /\ resp.retryAfter # 0
            /\ err.status \in KyAfterStatusCodes
         THEN RetryIn(resp.retryAfter * MILLISECONDS_PER_SECOND)
    ELSE RetryIn(Min(MAX_BACKOFF_MS, RetryDelay(count, jitter)))

(* Faulty variant: the time left until the reset is returned as it is.     *)
calculateRateLimitDelayNoFloor(resp, now) ==
    IF resp.retryAfter # 0 THEN resp.retryAfter * MILLISECONDS_PER_SECOND
    ELSE IF resp.reset # 0 THEN resp.reset * MILLISECONDS_PER_SECOND - now
    ELSE DEFAULT_RATE_LIMIT_DELAY_MS

(* calculateRateLimitDelay, lines 151-165.                                 *)
calculateRateLimitDelay(resp, now) ==
    IF resp.retryAfter # 0 THEN resp.retryAfter * MILLISECONDS_PER_SECOND
    ELSE IF resp.reset # 0
         THEN Max(resp.reset * MILLISECONDS_PER_SECOND - now, MILLISECONDS_PER_SECOND)
    ELSE DEFAULT_RATE_LIMIT_DELAY_MS

(* beforeRetry hook, lines 84-110: the extra time it sleeps before the     *)
(* retry is sent.                                                          *)
BeforeRetry(err, resp, now) ==
    IF err.class # "HTTPError" THEN 0
    ELSE IF err.status = 429 THEN calculateRateLimitDelay(resp, now)
    ELSE 0

(* request(), lines 186-207: the error the caller of the client sees.      *)
RequestError(err) ==
    CASE err.class = "HTTPError" -> err
      [] err.class = "TimeoutError" -> Error("ApiError", 408, "Request timeout")
      [] err.class = "ApiError" -> err
      [] OTHER -> Error("ApiError", 0, "Unexpected error")

(* The provisioning key the client was constructed with.                   *)
ProvisioningKey == "sk-or-prov"

(* The headers of a request: none are given by the client methods.         *)
Headers(auth, ctype) == [authorization |-> auth, contentType |-> ctype]
NoHeaders == Headers(<<>>, "")
Bearer(key) == <<"Bearer", key>>

(* Faulty variant: the hook sets the Authorization header only.            *)
beforeRequestAuthOnly(hdrs, key) == [hdrs EXCEPT !.authorization = Bearer(key)]

(* beforeRequest hook, lines 75-82; ky runs it before every fetch, the     *)
(* retries included.                                                       *)
beforeRequest(hdrs, key) ==
    [hdrs EXCEPT !.authorization = Bearer(key), !.contentType = "application/json"]

(* The requests of the client methods, lines 209-268.                      *)
createKey(keyName, limit) == Request("create", 0, keyName, limit, FALSE)
listKeys(includeDisabled) == Request("list", 0, <<>>, NullLimit, includeDisabled)

(* Faulty variant: disableKey sends disabled: false.                       *)
disableKeyEnables(hash) == Request("patchDisabled", hash, <<>>, NullLimit, FALSE)

disableKey(hash) == Request("patchDisabled", hash, <<>>, NullLimit, TRUE)
(* Faulty variant: enableKey sends disabled: true.                         *)
enableKeyDisables(hash) == Request("patchDisabled", hash, <<>>, NullLimit, TRUE)

enableKey(hash) == Request("patchDisabled", hash, <<>>, NullLimit, FALSE)
getKey(hash) == Request("get", hash, <<>>, NullLimit, FALSE)
setKeyLimit(hash, limit) == Request("patchLimit", hash, <<>>, limit, FALSE)
(* Faulty variant: the request addresses the key after the given one.      *)
deleteKeyByHashNext(hash) == Request("delete", hash + 1, <<>>, NullLimit, FALSE)

deleteKeyByHash(hash) == Request("delete", hash, <<>>, NullLimit, FALSE)

(* deleteKey, lines 270-279: the position in the listing of the key that   *)
(* keys.find((k) => k.name === keyName) returns, 0 when it returns         *)
(* undefined.                                                              *)
IsPrefix(p, q) == Len(p) <= Len(q) /\ SubSeq(q, 1, Len(p)) = p
FirstOf(S) == IF S = {} THEN 0 ELSE CHOOSE i \in S : \A j \in S : i <= j

(* Faulty variant: a key whose name starts with keyName is taken.          *)
FindByNamePrefix(keys, keyName) ==
    FirstOf({i \in DOMAIN keys : IsPrefix(keyName, keys[i].name)})

FindByName(keys, keyName) == FirstOf({i \in DOMAIN keys : keys[i].name = keyName})

(* Faulty variant: the retry count of the client's last call is kept.      *)
IssueCallKeepsCount(req) ==
    /\ call' = req
    /\ callState' = "sending"
    /\ retryCount' = retryCount
    /\ attempts' = 0
    /\ nWaits' = 0
    /\ delayMs' = 0
    /\ waited' = 0
    /\ lastResp' = NoResponse
    /\ callValue' = NoBody
    /\ callError' = NoError
    /\ headers' = beforeRequest(NoHeaders, ProvisioningKey)

(* A client method starts a ky call: a fresh retry state.                  *)
IssueCall(req) ==
    /\ call' = req
    /\ callState' = "sending"
    /\ retryCount' = 0
    /\ attempts' = 0
    /\ nWaits' = 0
    /\ delayMs' = 0
    /\ waited' = 0
    /\ lastResp' = NoResponse
    /\ callValue' = NoBody
    /\ callError' = NoError
    /\ headers' = beforeRequest(NoHeaders, ProvisioningKey)

(* The call has returned to its caller: its retry state is gone.           *)
DropCall ==
    /\ call' = NoCall
    /\ callState' = "none"
    /\ retryCount' = 0
    /\ attempts' = 0
    /\ nWaits' = 0
    /\ delayMs' = 0
    /\ waited' = 0
    /\ lastResp' = NoResponse
    /\ callValue' = NoBody
    /\ callError' = NoError
    /\ headers' = NoHeaders

(* The history of outcomes is extended unless the run does not keep one.   *)
Unobserved == <<NoResponse>>
Record(history, resp) == IF history = Unobserved THEN history ELSE Append(history, resp)

(* One attempt: the request is sent and the service processes it (Served)  *)
(* or the attempt fails (Faulted); ky then returns, retries or throws.     *)
AfterAttempt(resp, body) ==
    LET err == Thrown(resp)
    IN  /\ attempts' = attempts + 1
        /\ requested' = requested \cup {call.op}
        /\ trace' = Record(trace, resp)
        /\ lastResp' = resp
        /\ waited' = 0
        /\ UNCHANGED <<call, nWaits, headers>>
        /\ IF err = NoError
           THEN /\ callState' = "ok"
                /\ callValue' = body
                /\ UNCHANGED <<retryCount, delayMs, callError>>
           ELSE /\ retryCount' = retryCount + 1
                /\ callValue' = NoBody
                /\ \E jitter \in Jitters :
                      LET d == KyRetryDecision(err, resp, retryCount + 1, jitter)
                      IN  IF d.retry
                          THEN /\ callState' = "waiting"
                               /\ delayMs' = d.ms
                               /\ callError' = NoError
                          ELSE /\ callState' = "failed"
                               /\ delayMs' = 0
                               /\ callError' = RequestError(err)

Served ==
    /\ callState = "sending"
    /\ LET r == Serve(call, remote, nextHash)
       IN  /\ remote' = r.keys
           /\ nextHash' = r.nextHash
           /\ AfterAttempt(Response("http", r.status, 0, 0), r.body)
    /\ UNCHANGED <<opts, runVars>>

Faulted ==
    /\ callState = "sending"
    /\ \E f \in Faults : AfterAttempt(f, NoBody)
    /\ UNCHANGED <<opts, runVars, remote, nextHash>>

(* The backoff delay elapses, the beforeRetry hook runs, the retry is sent *)
(* next.                                                                   *)
BackoffElapsed ==
    /\ callState = "waiting"
    /\ \E now \in NowValues :
          waited' = delayMs + BeforeRetry(Thrown(lastResp), lastResp, now)
    /\ nWaits' = nWaits + 1
    /\ delayMs' = 0
    /\ callState' = "sending"
    /\ headers' = beforeRequest(headers, ProvisioningKey)
    /\ UNCHANGED <<call, retryCount, attempts, lastResp, callValue, callError>>
    /\ UNCHANGED <<opts, runVars, remote, nextHash, requested, trace>>

----------------------------------------------------------------------------
(* The key selector: src/lib/key-selector.ts.                              *)

(* Glob matching of a full name: "*" matches any run of characters, "?"    *)
(* exactly one.                                                            *)
RECURSIVE GlobMatch(_, _)
GlobMatch(s, p) ==
    IF p = <<>> THEN s = <<>>
    ELSE IF Head(p) = "*"
         THEN GlobMatch(s, Tail(p)) \/ (s # <<>> /\ GlobMatch(Tail(s), p))
    ELSE IF s = <<>> THEN FALSE
    ELSE (Head(p) = "?" \/ Head(p) = Head(s)) /\ GlobMatch(Tail(s), Tail(p))

(* minimatch(name, pattern) as the selector calls it (default options), for *)
(* names and patterns without "/", braces, classes or a leading "!" or "#": *)
(* a name that starts with "." is matched only by a pattern that starts    *)
(* with a literal "." (option dot is off); otherwise "*" matches any run   *)
(* of characters and "?" exactly one.                                      *)
minimatch(name, pattern) ==
    IF name # <<>> /\ Head(name) = "." /\ (pattern = <<>> \/ Head(pattern) # ".")
    THEN FALSE
    ELSE GlobMatch(name, pattern)

(* Lines 20-27: the message of the error thrown before any request, "" if  *)
(* exactly one of pattern and hash is given.                               *)
(* Faulty variant: the check for a missing criterion is forgotten.                 *)
SelectorErrorBothOnly(o) ==
    IF o.pattern # <<>> /\ o.hash # 0
    THEN "Cannot specify both --pattern and --hash. Choose one."
    ELSE ""

SelectorError(o) ==
    IF o.pattern # <<>> /\ o.hash # 0
    THEN "Cannot specify both --pattern and --hash. Choose one."
    ELSE IF o.pattern = <<>> /\ o.hash = 0
    THEN "Either --pattern or --hash must be provided"
    ELSE ""

(* Lines 35-55: the keys of the listing that the options select.           *)
Target(n, h, l) == [name |-> n, hash |-> h, limit |-> l]
SelectKeys(allKeys, o) ==
    LET picked == IF o.hash # 0
                  THEN SelectSeq(allKeys, LAMBDA k : k.hash = o.hash)
                  ELSE SelectSeq(allKeys, LAMBDA k : minimatch(k.name, o.pattern))
    IN  [i \in DOMAIN picked |-> Target(picked[i].name, picked[i].hash, picked[i].limit)]

NoneSelectedError(o) ==
    IF o.hash # 0 THEN "No key found with hash" ELSE "No keys match pattern"

(* validateLimit, src/lib/validators.ts lines 38-43.                       *)
(* NaN is a value of its own: every comparison with it is false in the     *)
(* program, so it is not caught by limit <= 0.                             *)
NaN == 1000000
LessOrEqual(x, y) == x # NaN /\ y # NaN /\ x <= y

(* Faulty variant: only limit <= 0 is tested.                              *)
ValidLimitNoNaNTest(limit) == ~LessOrEqual(limit, 0)

ValidLimit(limit) == ~(limit = NaN \/ LessOrEqual(limit, 0))

----------------------------------------------------------------------------
(* The commands: bin/cli.ts and the batch functions.                       *)

Kinds == {"delete", "enable", "disable", "setLimit", "rotate"}

(* The client method that is run on its own.                               *)
Methods == {"deleteByName"}

(* The first request of a loop iteration and the request of each step.     *)
(* Faulty variant: rotate deletes without reading the key first.           *)
FirstStepSkipsGet(kind) == IF kind = "rotate" THEN "delete" ELSE kind

FirstStep(kind) == IF kind = "rotate" THEN "get" ELSE kind

(* disable(): its loop calls client.disableKey(key.hash), as enable() calls  *)
(* client.enableKey(key.hash).                                              *)
DisableRequest(key) == disableKey(key.hash)

(* keyDetails.limit ?? 0                                                   *)
LimitOrZero(limit) == IF limit = NullLimit THEN 0 ELSE limit

StepRequest(kind, st, key, o, details) ==
    CASE st = "delete" -> deleteKeyByHash(key.hash)
      [] st = "enable" -> enableKey(key.hash)
      [] st = "disable" -> DisableRequest(key)
      [] st = "setLimit" -> setKeyLimit(key.hash, o.limit)
      [] st = "get" -> getKey(key.hash)
      [] st = "create" -> createKey(details.name, LimitOrZero(details.limit))

(* The entries of the two result lists; target is the position of the loop *)
(* when the entry was pushed.                                              *)
Done(i, n, h) == [target |-> i, name |-> n, hash |-> h]
Failure(i, n, msg) == [target |-> i, name |-> n, error |-> msg]

(* try { ... push } catch { errors.push }: the result lists after the      *)
(* iteration for targets[i] ended.                                         *)
(* Faulty variant: the entry is put in front of the earlier ones.          *)
PushSucceededFront(list, entry) == <<entry>> \o list

PushSucceeded(list, entry) == Append(list, entry)

(* Faulty variant: the catch block swallows the error without recording it.        *)
PushFailedLost(list, entry) == list

PushFailed(list, entry) == Append(list, entry)

(* rotated.push({ keyName: keyDetails.name, apiKey, hash: newHash }).      *)
(* Faulty variant: the entry reports the hash of the deleted key.          *)
RotatedOldHash(i, details, created) == Done(i, details.name, details.hash)

Rotated(i, details, created) == Done(i, details.name, created.hash)

(* await: the loop body goes on only when the client method has returned   *)
(* or thrown.                                                              *)
(* Faulty variant: the loop does not wait for a call that is backing off.  *)
AwaitedNotBackoff(state) == state \in {"ok", "failed", "waiting"}

Awaited(state) == state \in {"ok", "failed"}

(* The command actions ask for confirmation unless --confirm is given.     *)
(* Faulty variant: the command never asks.                                         *)
NeedsConfirmationNever(o) == FALSE

NeedsConfirmation(o) == ~o.confirm

(* confirmAction, bin/cli.ts lines 256-268: the lines written before the   *)
(* prompt.                                                                 *)
PreviewCount == 5
Line(kind, n, h, c) == [kind |-> kind, name |-> n, hash |-> h, count |-> c]
HeaderLine(keys) == Line("header", <<>>, 0, Len(keys))
KeyLine(key) == Line("key", key.name, key.hash, 0)
MoreLine(keys) == Line("more", <<>>, 0, Len(keys) - PreviewCount)

(* keys.slice(0, end)                                                      *)
SliceTo(keys, end) == SubSeq(keys, 1, Min(end, Len(keys)))

(* Faulty variant: every key is listed.                                    *)
confirmLinesAllKeys(keys) ==
    <<HeaderLine(keys)>> \o [i \in DOMAIN keys |-> KeyLine(keys[i])]

confirmLines(keys) ==
    LET first == SliceTo(keys, PreviewCount)
    IN  <<HeaderLine(keys)>>
           \o [i \in DOMAIN first |-> KeyLine(first[i])]
           \o (IF Len(keys) > PreviewCount THEN <<MoreLine(keys)>> ELSE <<>>)

(* The next state of the run; entering AwaitingConfirmation is the call of *)
(* confirmAction on the previewed keys.                                    *)
SetRun(ph, rf, pv, an, tg, ix, st, kd, su, fa, th) ==
    /\ phase' = ph
    /\ printed' = IF ph = "AwaitingConfirmation" THEN confirmLines(pv) ELSE printed
    /\ resolveFor' = rf
    /\ preview' = pv
    /\ answer' = an
    /\ targets' = tg
    /\ idx' = ix
    /\ step' = st
    /\ keyDetails' = kd
    /\ succeeded' = su
    /\ failed' = fa
    /\ thrown' = th

(* An error leaves the batch function: handleCommandError, exit code 1.    *)
Fail(an, msg) ==
    /\ SetRun("Failed", resolveFor, preview, an, targets, idx, step, keyDetails,
              succeeded, failed, msg)
    /\ DropCall

(* The command returns.                                                    *)
Complete(an, su, fa) ==
    /\ SetRun("Completed", resolveFor, preview, an, targets, idx, step, keyDetails,
              su, fa, "")
    /\ DropCall

(* for (const key of keys): the loop starts on the resolved list.          *)
StartLoop(ts, an) ==
    IF ts = <<>>
    THEN /\ SetRun("Completed", resolveFor, preview, an, ts, 0, "none", NoKey,
                   <<>>, <<>>, "")
         /\ DropCall
    ELSE /\ SetRun("Executing", resolveFor, preview, an, ts, 1, FirstStep(opts.kind),
                   NoKey, <<>>, <<>>, "")
         /\ IssueCall(StepRequest(opts.kind, FirstStep(opts.kind), ts[1], opts, NoKey))

(* The batch function (destroy, enable, disable, setLimit, rotate and the   *)
(* bulk ones) up to its first request.                                     *)
EnterBatch(an) ==
    IF opts.kind = "setLimit" /\ ~ValidLimit(opts.limit)
    THEN Fail(an, "Limit must be a positive number")
    ELSE IF ~opts.hasKey THEN Fail(an, "Provisioning key not found")
    ELSE IF opts.fromFile THEN StartLoop(opts.file, an)
    ELSE IF SelectorError(opts) # "" THEN Fail(an, SelectorError(opts))
    ELSE /\ SetRun("Resolving", "run", preview, an, targets, idx, step, keyDetails,
                   succeeded, failed, thrown)
         /\ IssueCall(listKeys(TRUE))

(* The preview of the command action up to its first request or prompt.    *)
EnterPreview ==
    IF opts.fromFile
    THEN IF opts.file = <<>>
         THEN Complete("none", <<>>, <<>>)
         ELSE /\ SetRun("AwaitingConfirmation", resolveFor, opts.file, answer, targets,
                        idx, step, keyDetails, succeeded, failed, thrown)
              /\ DropCall
    ELSE IF SelectorError(opts) # "" THEN Fail("none", SelectorError(opts))
    ELSE IF ~opts.hasKey THEN Fail("none", "Provisioning key not found")
    ELSE /\ SetRun("Resolving", "preview", preview, answer, targets, idx, step,
                   keyDetails, succeeded, failed, thrown)
         /\ IssueCall(listKeys(TRUE))

(* client.deleteKey(keyName) is called: const keys = await this.listKeys() *)
EnterDeleteKey ==
    /\ SetRun("Finding", resolveFor, preview, answer, targets, idx, step, keyDetails,
              succeeded, failed, thrown)
    /\ IssueCall(listKeys(FALSE))

(* The command action starts, or the client's deleteKey is called.         *)
Invoke ==
    /\ phase = "Idle"
    /\ IF opts.kind \in Methods THEN EnterDeleteKey
       ELSE IF NeedsConfirmation(opts) THEN EnterPreview
       ELSE EnterBatch("none")
    /\ UNCHANGED <<opts, remote, nextHash, requested, trace>>

(* Faulty variant: the answer is ignored.                                          *)
DeclinedProceeds == EnterBatch("no")

(* if (!confirmed) return;                                                 *)
Declined == Complete("no", <<>>, <<>>)

(* confirmAction returns the prompt's answer.                              *)
Answer ==
    /\ phase = "AwaitingConfirmation"
    /\ \E a \in {"yes", "no"} :
          IF a = "no" THEN Declined ELSE EnterBatch("yes")
    /\ UNCHANGED <<opts, remote, nextHash, requested, trace>>

(* getSelectedKeys continues after listKeys returned or threw.             *)
Resolved ==
    /\ phase = "Resolving"
    /\ callState \in {"ok", "failed"}
    /\ IF callState = "failed" THEN Fail(answer, callError.message)
       ELSE LET selected == SelectKeys(callValue.keys, opts)
            IN  IF selected = <<>> THEN Fail(answer, NoneSelectedError(opts))
                ELSE IF resolveFor = "preview"
                THEN /\ SetRun("AwaitingConfirmation", resolveFor, selected, answer,
                               targets, idx, step, keyDetails, succeeded, failed, thrown)
                     /\ DropCall
                ELSE StartLoop(selected, answer)
    /\ UNCHANGED <<opts, remote, nextHash, requested, trace>>

(* The loop moves on after the iteration for targets[idx] ended with the   *)
(* given result lists.                                                     *)
Advance(su, fa) ==
    IF idx = Len(targets)
    THEN Complete(answer, su, fa)
    ELSE /\ SetRun("Executing", resolveFor, preview, answer, targets, idx + 1,
                   FirstStep(opts.kind), NoKey, su, fa, thrown)
         /\ IssueCall(StepRequest(opts.kind, FirstStep(opts.kind), targets[idx + 1],
                                  opts, NoKey))

(* Faulty variant: the error of the iteration leaves the batch function.           *)
OnIterationErrorRethrown(key, msg) == Fail(answer, msg)

(* Faulty variant: a failed createKey is followed by a second createKey    *)
(* that tries to bring the deleted key back.                               *)
OnIterationErrorRollsBack(key, msg) ==
    IF step = "create"
    THEN /\ SetRun(phase, resolveFor, preview, answer, targets, idx, step, keyDetails,
                   succeeded, failed, thrown)
         /\ IssueCall(createKey(keyDetails.name, LimitOrZero(keyDetails.limit)))
    ELSE Advance(succeeded, Append(failed, Failure(idx, key.name, msg)))

(* Faulty variant: the failed target is tried again from its first         *)
(* request.                                                                *)
OnIterationErrorTriesAgain(key, msg) ==
    /\ SetRun(phase, resolveFor, preview, answer, targets, idx, FirstStep(opts.kind),
              NoKey, succeeded, failed, thrown)
    /\ IssueCall(StepRequest(opts.kind, FirstStep(opts.kind), key, opts, NoKey))

(* Faulty variant: rotate deletes the key although getKey failed.          *)
OnIterationErrorDeletesAnyway(key, msg) ==
    IF step = "get"
    THEN /\ SetRun(phase, resolveFor, preview, answer, targets, idx, "delete",
                   keyDetails, succeeded, failed, thrown)
         /\ IssueCall(deleteKeyByHash(key.hash))
    ELSE Advance(succeeded, Append(failed, Failure(idx, key.name, msg)))

(* Faulty variant: an authentication failure ends the loop.                *)
OnIterationErrorStopsOnAuth(key, msg) ==
    IF msg = "Unauthorized: Invalid API key"
    THEN Complete(answer, succeeded, Append(failed, Failure(idx, key.name, msg)))
    ELSE Advance(succeeded, Append(failed, Failure(idx, key.name, msg)))

(* catch (error) { errors.push({ keyName: key.name, error: errorMessage }) } *)
OnIterationError(key, msg) ==
    Advance(succeeded, PushFailed(failed, Failure(idx, key.name, msg)))

(* The loop body continues after a client method returned or threw.        *)
Stepped ==
    /\ phase = "Executing"
    /\ Awaited(callState)
    /\ LET key == targets[idx]
       IN  IF callState = "failed"
           THEN OnIterationError(key, callError.message)
           ELSE IF step = "get"
           THEN /\ SetRun(phase, resolveFor, preview, answer, targets, idx, "delete",
                          callValue.key, succeeded, failed, thrown)
                /\ IssueCall(StepRequest(opts.kind, "delete", key, opts, callValue.key))
           ELSE IF step = "delete" /\ opts.kind = "rotate"
           THEN /\ SetRun(phase, resolveFor, preview, answer, targets, idx, "create",
                          keyDetails, succeeded, failed, thrown)
                /\ IssueCall(StepRequest(opts.kind, "create", key, opts, keyDetails))
           ELSE IF step = "create"
           THEN Advance(PushSucceeded(succeeded, Rotated(idx, keyDetails, callValue.key)),
                        failed)
           ELSE Advance(PushSucceeded(succeeded, Done(idx, key.name, 0)), failed)
    /\ UNCHANGED <<opts, remote, nextHash, requested, trace>>

(* deleteKey continues after listKeys returned or threw.                   *)
Found ==
    /\ phase = "Finding"
    /\ callState \in {"ok", "failed"}
    /\ IF callState = "failed" THEN Fail(answer, callError.message)
       ELSE LET at == FindByName(callValue.keys, opts.name)
            IN  IF at = 0 THEN Fail(answer, "Key not found")
                ELSE /\ SetRun("Deleting", resolveFor, preview, answer, targets, idx,
                               step, keyDetails, succeeded, failed, thrown)
                     /\ IssueCall(deleteKeyByHash(callValue.keys[at].hash))
    /\ UNCHANGED <<opts, remote, nextHash, requested, trace>>

(* deleteKey returns or throws after deleteKeyByHash returned or threw.    *)
Deleted ==
    /\ phase = "Deleting"
    /\ callState \in {"ok", "failed"}
    /\ IF callState = "failed" THEN Fail(answer, callError.message)
       ELSE Complete(answer, succeeded, failed)
    /\ UNCHANGED <<opts, remote, nextHash, requested, trace>>

----------------------------------------------------------------------------
(* The runs explored.                                                      *)

FileHashes == {1, 9}
FileKey(h) == Target(<<"f", IF h = 1 THEN "x" ELSE "z">>, h, NullLimit)

RECURSIVE FilesOfLen(_)
FilesOfLen(n) ==
    IF n = 0 THEN {<<>>}
    ELSE {Append(f, FileKey(h)) : f \in FilesOfLen(n - 1), h \in FileHashes}

Files == UNION {FilesOfLen(n) : n \in 0..MaxFileLen}
Hashes == {0, 1, 9}
Patterns == {<<>>, <<"a", "*">>, <<"z", "*">>}
Limits == {0, -5, NaN, 5}
KeyNames == {<<"a", "x">>, <<"a", "y">>, <<"a">>}

Options ==
    { o \in [kind : Kinds \cup Methods, fromFile : BOOLEAN, confirm : BOOLEAN,
             hasKey : BOOLEAN, hash : Hashes, pattern : Patterns, file : Files,
             limit : Limits, name : KeyNames \cup {<<>>}] :
        /\ (o.fromFile => o.hash = 0 /\ o.pattern = <<>>)
        /\ (~o.fromFile => o.file = <<>>)
        /\ (o.kind # "setLimit" => o.limit = 5)
        /\ (o.kind \in Kinds => o.name = <<>>)
        /\ (o.kind \in Methods =>
              /\ o.name # <<>>
              /\ ~o.fromFile /\ ~o.confirm /\ o.hasKey
              /\ o.hash = 0 /\ o.pattern = <<>>) }

(* Nothing has run yet: no call, no result, no request sent.               *)
FreshRun ==
    /\ phase = "Idle"
    /\ resolveFor = "none"
    /\ preview = <<>>
    /\ printed = <<>>
    /\ answer = "none"
    /\ targets = <<>>
    /\ idx = 0
    /\ step = "none"
    /\ keyDetails = NoKey
    /\ succeeded = <<>>
    /\ failed = <<>>
    /\ thrown = ""
    /\ nextHash = 4
    /\ call = NoCall
    /\ callState = "none"
    /\ retryCount = 0
    /\ attempts = 0
    /\ nWaits = 0
    /\ delayMs = 0
    /\ waited = 0
    /\ lastResp = NoResponse
    /\ callValue = NoBody
    /\ callError = NoError
    /\ headers = NoHeaders
    /\ requested = {}

Fresh ==
    /\ FreshRun
    /\ trace = Unobserved

Init ==
    /\ opts \in Options
    /\ remote = InitialKeys
    /\ Fresh

Next ==
    \/ Invoke
    \/ Answer
    \/ Resolved
    \/ Stepped
    \/ Found
    \/ Deleted
    \/ Served
    \/ Faulted
    \/ BackoffElapsed

Spec == Init /\ [][Next]_vars

----------------------------------------------------------------------------
(* The selector on its own: getSelectedKeys called for the preview of a    *)
(* command, over every listing of some of three keys in every order, no    *)
(* attempt failing.                                                        *)

SelKeys ==
    { Key(1, <<".", "a">>, NullLimit, FALSE),
      Key(2, <<"b">>, 10, FALSE),
      Key(3, <<"a", "b">>, 20, TRUE) }

RECURSIVE ListingsOf(_)
ListingsOf(S) ==
    {<<>>} \cup UNION { {<<k>> \o l : l \in ListingsOf(S \ {k})} : k \in S }

SelPatterns == {<<"*">>, <<"a", "*">>, <<"?">>, <<".", "*">>, <<"*", "b">>, <<"?", "?">>}

SelOptions ==
    { o \in [kind : {"delete"}, fromFile : {FALSE}, confirm : {FALSE}, hasKey : {TRUE},
             hash : Hashes, pattern : SelPatterns \cup {<<>>}, file : {<<>>},
             limit : {5}, name : {<<>>}] :
        (o.hash = 0) # (o.pattern = <<>>) }

SelInit ==
    /\ opts \in SelOptions
    /\ remote \in ListingsOf(SelKeys)
    /\ Fresh

SelNext ==
    \/ Invoke
    \/ Served
    \/ Resolved

SelSpec == SelInit /\ [][SelNext]_vars

----------------------------------------------------------------------------
(* The client against error responses with every shape of body: one        *)
(* delete command whose attempts may be answered by any status with any    *)
(* body.                                                                   *)

ErrorBodies ==
    {ErrorBody(TRUE, n, f, sp) : n \in {"", "nested"}, f \in {"", "flat"}, sp \in BOOLEAN}
        \cup {ErrorBody(FALSE, "", "", sp) : sp \in BOOLEAN}

ErrorStatuses == {400, 401, 403, 404, 429, 500, 503}

BodyFaults ==
    {WithBody(Response("http", st, 0, 0), b) : st \in ErrorStatuses, b \in ErrorBodies}
        \cup {Response("timeout", 0, 0, 0), Response("network", 0, 0, 0)}

FaultedAnyBody ==
    /\ callState = "sending"
    /\ \E f \in BodyFaults : AfterAttempt(f, NoBody)
    /\ UNCHANGED <<opts, runVars, remote, nextHash>>

ParseOptions ==
    { o \in Options :
        /\ o.kind = "delete" /\ o.fromFile /\ o.confirm /\ o.hasKey
        /\ o.file = <<FileKey(1)>> }

ParseInit ==
    /\ opts \in ParseOptions
    /\ remote = InitialKeys
    /\ Fresh

ParseNext ==
    \/ Invoke
    \/ Stepped
    \/ Served
    \/ FaultedAnyBody
    \/ BackoffElapsed

ParseSpec == ParseInit /\ [][ParseNext]_vars

----------------------------------------------------------------------------
(* The preview on its own: bulk-delete without --confirm on key files of   *)
(* up to MaxPreviewLen rows, up to the first request after the prompt.     *)

PreviewOptions ==
    { [kind |-> "delete", fromFile |-> TRUE, confirm |-> FALSE, hasKey |-> TRUE,
       hash |-> 0, pattern |-> <<>>, file |-> f, limit |-> 5, name |-> <<>>] :
         f \in UNION {FilesOfLen(n) : n \in 0..MaxPreviewLen} }

PreviewInit ==
    /\ opts \in PreviewOptions
    /\ remote = InitialKeys
    /\ Fresh

PreviewNext ==
    \/ Invoke
    \/ Answer

PreviewSpec == PreviewInit /\ [][PreviewNext]_vars

----------------------------------------------------------------------------
(* Batch runs whose outcomes are recorded: bulk-delete --confirm on every  *)
(* key file; each attempt is processed by the service, is answered 503 or  *)
(* times out.                                                              *)

DetOptions ==
    { o \in Options : o.kind = "delete" /\ o.fromFile /\ o.confirm /\ o.hasKey }

DetFaults == {f \in Faults : f.kind = "timeout" \/ f.status = 503}

FaultedFew ==
    /\ callState = "sending"
    /\ \E f \in DetFaults : AfterAttempt(f, NoBody)
    /\ UNCHANGED <<opts, runVars, remote, nextHash>>

DetInit ==
    /\ opts \in DetOptions
    /\ remote = InitialKeys
    /\ FreshRun
    /\ trace = <<>>

DetNext ==
    \/ Invoke
    \/ Stepped
    \/ Served
    \/ FaultedFew
    \/ BackoffElapsed

DetSpec == DetInit /\ [][DetNext]_vars

(* Every file-driven batch command with --confirm, each attempt processed, *)
(* answered 503 or 429 with Retry-After, or timing out, with the progress  *)
(* the runtime guarantees: an awaited call that has settled resumes its    *)
(* caller, every attempt ends with a response or an error (ky's timeout    *)
(* bounds it), and a backoff timer fires.                                  *)
FairOptions ==
    { o \in Options : o.kind \in Kinds /\ o.fromFile /\ o.confirm /\ o.hasKey }

FairInit ==
    /\ opts \in FairOptions
    /\ remote = InitialKeys
    /\ Fresh

FairFaults ==
    {f \in Faults : f.kind = "timeout" \/ f.status = 503 \/ (f.status = 429 /\ f.retryAfter # 0)}

FaultedFair ==
    /\ callState = "sending"
    /\ \E f \in FairFaults : AfterAttempt(f, NoBody)
    /\ UNCHANGED <<opts, runVars, remote, nextHash>>

FairNext ==
    \/ Invoke
    \/ Stepped
    \/ Served
    \/ FaultedFair
    \/ BackoffElapsed

Fairness ==
    /\ WF_vars(Invoke)
    /\ WF_vars(Stepped)
    /\ WF_vars(Served \/ FaultedFair)
    /\ WF_vars(BackoffElapsed)

FairSpec == FairInit /\ [][FairNext]_vars /\ Fairness

----------------------------------------------------------------------------
(* A selector-driven command without --confirm while another client of the *)
(* service is at work: during the prompt that client creates a key or      *)
(* deletes one.                                                            *)

RaceOptions ==
    { o \in Options :
        /\ o.kind \in {"delete", "disable", "rotate"}
        /\ ~o.fromFile /\ ~o.confirm /\ o.hasKey
        /\ (o.hash = 0) # (o.pattern = <<>>) }

OtherClientActs ==
    /\ phase = "AwaitingConfirmation"
    /\ remote = InitialKeys
    /\ \/ /\ remote' = Append(remote, Key(nextHash, <<"a", "z">>, NullLimit, FALSE))
          /\ nextHash' = nextHash + 1
       \/ /\ remote' = WithoutHash(remote, 1)
          /\ nextHash' = nextHash
    /\ UNCHANGED <<opts, runVars, callVars, requested, trace>>

RaceInit ==
    /\ opts \in RaceOptions
    /\ remote = InitialKeys
    /\ Fresh

RaceNext ==
    \/ Invoke
    \/ Resolved
    \/ Answer
    \/ OtherClientActs
    \/ Served
    \/ Stepped

RaceSpec == RaceInit /\ [][RaceNext]_vars

----------------------------------------------------------------------------
(* Rotation over a lossy path: the service processes the request of an     *)
(* attempt, but the client gets a 503 from a gateway, a network error or   *)
(* its own timeout instead of the answer.                                  *)

LostOptions ==
    { o \in Options : o.kind = "rotate" /\ o.fromFile /\ o.confirm /\ o.hasKey }

LostFaults == {f \in Faults : f.kind \in {"timeout", "network"} \/ f.status = 503}

ServedLost ==
    /\ callState = "sending"
    /\ LET r == Serve(call, remote, nextHash)
       IN  /\ remote' = r.keys
           /\ nextHash' = r.nextHash
    /\ \E f \in LostFaults : AfterAttempt(f, NoBody)
    /\ UNCHANGED <<opts, runVars>>

LostInit ==
    /\ opts \in LostOptions
    /\ remote = InitialKeys
    /\ Fresh

LostNext ==
    \/ Invoke
    \/ Stepped
    \/ Served
    \/ ServedLost
    \/ BackoffElapsed

LostSpec == LostInit /\ [][LostNext]_vars

----------------------------------------------------------------------------
(* Two commands in a row on the same key: disable --hash 1 -y and, once it *)
(* has returned with the key in its succeeded list, enable --hash 1 -y.    *)

ToggleOptions ==
    { o \in Options :
        /\ o.kind = "disable" /\ ~o.fromFile /\ o.confirm /\ o.hasKey
        /\ o.hash = 1 /\ o.pattern = <<>> }

ToggleInit ==
    /\ opts \in ToggleOptions
    /\ remote = InitialKeys
    /\ Fresh

(* The enable command is started after the disable command succeeded.      *)
NextCommand ==
    /\ phase = "Completed"
    /\ opts.kind = "disable"
    /\ Len(succeeded) = 1
    /\ opts' = [opts EXCEPT !.kind = "enable"]
    /\ SetRun("Idle", "none", <<>>, "none", <<>>, 0, "none", NoKey, <<>>, <<>>, "")
    /\ DropCall
    /\ requested' = {}
    /\ UNCHANGED <<remote, nextHash, trace>>

ToggleNext ==
    \/ Invoke
    \/ Resolved
    \/ Stepped
    \/ Served
    \/ Faulted
    \/ BackoffElapsed
    \/ NextCommand

ToggleSpec == ToggleInit /\ [][ToggleNext]_vars

----------------------------------------------------------------------------
(* Properties.                                                             *)

MutatingOps == {"create", "delete", "patchDisabled", "patchLimit"}
Entries(list, i) == {j \in DOMAIN list : list[j].target = i}
Budget == DEFAULT_MAX_RETRIES

(* C1: for a batch over N resolved targets the succeeded and failed lists  *)
(* together hold exactly N entries when the run completes, and every       *)
(* target the loop has finished with has exactly one entry, in one of the  *)
(* two lists (none while it is still to be processed).                     *)
C1_Partition ==
    /\ phase = "Completed" => Len(succeeded) + Len(failed) = Len(targets)
    /\ phase = "Executing" => Len(succeeded) + Len(failed) = idx - 1
    /\ \A i \in 1..Len(targets) :
          Cardinality(Entries(succeeded, i)) + Cardinality(Entries(failed, i))
             = IF phase = "Completed" \/ i < idx THEN 1 ELSE 0
    /\ \A j \in DOMAIN failed : failed[j].name = targets[failed[j].target].name

C1_Witness ==
    /\ phase = "Completed"
    /\ Len(targets) = 2
    /\ Len(succeeded) = 1
    /\ Len(failed) = 1

(* C2: when the request of target i fails in a batch (terminal error,      *)
(* exhausted retries, timeout), the error is appended to the failed list   *)
(* with its message, nothing is raised to the caller, the loop goes on     *)
(* with target i+1 and the run completes only after the last target.       *)
C2_FailureIsolated ==
    [][ (phase = "Executing" /\ callState = "failed") =>
          /\ failed' = Append(failed, Failure(idx, targets[idx].name, callError.message))
          /\ callError.message # ""
          /\ succeeded' = succeeded
          /\ thrown' = ""
          /\ IF idx < Len(targets)
             THEN /\ phase' = "Executing"
                  /\ idx' = idx + 1
                  /\ callState' = "sending"
                  /\ call'.hash = targets[idx + 1].hash
             ELSE phase' = "Completed" ]_vars

C2_Witness ==
    /\ phase = "Executing"
    /\ idx = 2
    /\ Len(failed) = 1
    /\ failed[1].error = "Request timeout"
    /\ attempts = 1

(* C3: in a run started without --confirm the batch loop is entered, and a *)
(* create, update or delete request is sent, only after the prompt was     *)
(* shown with the preview and answered yes.                                *)
C3_ConfirmedBeforeExecuting ==
    (opts.kind \in Kinds /\ ~opts.confirm /\ (phase = "Executing" \/ requested \cap MutatingOps # {}))
        => (answer = "yes" /\ preview # <<>>)

C3_Witness ==
    /\ ~opts.confirm
    /\ answer = "yes"
    /\ phase = "Executing"
    /\ call.op = "delete"
    /\ "delete" \in requested

(* C4 as stated: after the answer no the run is Completed with an empty    *)
(* result and no network call was made during the whole run.               *)
C4_DeclinedZeroCalls ==
    answer = "no" =>
        (phase = "Completed" /\ succeeded = <<>> /\ failed = <<>> /\ requested = {})

(* C4 amended: after the answer no the run is Completed with an empty      *)
(* result, no request is in progress, and the only requests of the whole   *)
(* run are the listing requests the selector sent to build the preview     *)
(* (none at all for a file-driven run).                                    *)
C4_DeclinedOnlyListing ==
    answer = "no" =>
        /\ phase = "Completed"
        /\ succeeded = <<>>
        /\ failed = <<>>
        /\ callState = "none"
        /\ requested = IF opts.fromFile THEN {} ELSE {"list"}

C4_Witness ==
    /\ answer = "no"
    /\ phase = "Completed"
    /\ ~opts.fromFile
    /\ Len(preview) = 2

(* C5 as stated: an attempt answered with a status outside the retryable   *)
(* set ends the call at once: the error is surfaced with that status and   *)
(* no backoff wait or further attempt follows.                             *)
C5_TerminalStatusNotRetried ==
    (lastResp.kind = "http" /\ ~IsOk(lastResp)
        /\ lastResp.status \notin RETRYABLE_STATUS_CODES)
    => (callState = "failed" /\ callError.status = lastResp.status)

C7_RetriesAbsorbed ==
    /\ (lastResp.kind = "http" /\ lastResp.status \in RETRYABLE_STATUS_CODES
          /\ retryCount <= Budget)
          => callState \in {"waiting", "sending"}
    /\ callState = "ok"
          => /\ callError = NoError
             /\ retryCount <= Budget
             /\ attempts = retryCount + 1
             /\ nWaits = retryCount

C7_Witness ==
    /\ callState = "ok"
    /\ attempts = 3
    /\ nWaits = 2
    /\ retryCount = 2

(* C8 as stated: after a 429 answer carrying retry-after: 2 the next       *)
(* attempt is sent at least 2 seconds later.                               *)
C8_RetryAfterHonoured ==
    (callState = "sending" /\ attempts > 0
        /\ lastResp.status = 429 /\ lastResp.retryAfter = 2)
    => waited >= 2 * MILLISECONDS_PER_SECOND

(* C9 as stated: an attempt that times out within the budget is followed   *)
(* by a retry, and a call fails on a timeout only when the budget is used  *)
(* up.                                                                     *)
C9_TimeoutRetried ==
    /\ (lastResp.kind = "timeout" /\ retryCount <= Budget)
          => callState \in {"waiting", "sending"}
    /\ (lastResp.kind = "timeout" /\ callState = "failed")
          => (attempts = Budget + 1 /\ callError.message = "Request timeout")

Issued == callState' = "sending" /\ attempts' = 0

C13_RotatePreservesNameAndLimit ==
    (opts.kind = "rotate" /\ phase = "Executing" /\ step = "create" /\ callState = "ok")
    => /\ keyDetails.hash = targets[idx].hash
       /\ callValue.key.name = keyDetails.name
       /\ callValue.key.limit = keyDetails.limit

(* C14: in a rotate run every entry of rotated reports a hash that differs *)
(* from the hash of its target, the hash of its target is no longer held   *)
(* by the remote service, and the target has exactly one entry in rotated  *)
(* and none in errors.                                                     *)
C14_RotatedHashFresh ==
    opts.kind = "rotate" =>
        \A j \in DOMAIN succeeded :
            LET old == targets[succeeded[j].target].hash
            IN  /\ succeeded[j].hash # old
                /\ succeeded[j].hash # 0
                /\ ~HasHash(remote, old)
                /\ Cardinality(Entries(succeeded, succeeded[j].target)) = 1
                /\ Entries(failed, succeeded[j].target) = {}

C14_Witness ==
    /\ opts.kind = "rotate"
    /\ phase = "Completed"
    /\ Len(targets) = 1
    /\ Len(succeeded) = 1
    /\ succeeded[1].hash = 4
    /\ HasHash(remote, 4)
    /\ ~HasHash(remote, 1)

(* The request in progress belongs to the target at the loop's position.   *)
CallIsForTarget(c, key, details) ==
    IF c.op = "create" THEN c.name = details.name ELSE c.hash = key.hash

(* C15: a batch is executed strictly sequentially: a request is issued     *)
(* only when no other request or backoff wait is in progress, the request  *)
(* in progress during the loop is a request of the target at the loop's    *)
(* position, and the loop moves to the next target (or returns) only when  *)
(* the request of the current target has returned or thrown after all its  *)
(* retries and waits; in rotate, only after createKey returned or one of   *)
(* the three steps threw.                                                  *)
C15_StrictlySequential ==
    /\ [](phase = "Executing" =>
            /\ callState # "none"
            /\ CallIsForTarget(call, targets[idx], keyDetails))
    /\ [][ Issued => callState \in {"none", "ok", "failed"} ]_vars
    /\ [][ (phase = "Executing" /\ (idx' # idx \/ phase' # "Executing")) =>
              /\ callState \in {"ok", "failed"}
              /\ delayMs = 0
              /\ (opts.kind = "rotate" /\ callState = "ok") => step = "create"
              /\ IF phase' = "Executing"
                 THEN /\ idx' = idx + 1
                      /\ Issued
                      /\ call'.hash = targets[idx + 1].hash
                 ELSE /\ phase' = "Completed"
                      /\ idx = Len(targets)
                      /\ callState' = "none" ]_vars

C15_Witness ==
    /\ opts.kind = "rotate"
    /\ phase = "Executing"
    /\ idx = 2
    /\ step = "delete"
    /\ callState = "waiting"
    /\ retryCount = 2
    /\ Len(succeeded) = 1

Ascending(list) ==
    \A j, k \in DOMAIN list : j < k => list[j].target < list[k].target

(* C16: in a batch run the remote service is changed only by a request of  *)
(* the target at the loop's position, the position only moves forward, and *)
(* the entries of each result list are in the order of the resolved        *)
(* targets, each naming its target: each list is a subsequence of the      *)
(* target list.                                                            *)
C16_OrderPreserved ==
    /\ [](opts.kind \in Kinds =>
            /\ Ascending(succeeded)
            /\ Ascending(failed)
            /\ \A j \in DOMAIN succeeded :
                  /\ succeeded[j].target \in 1..idx
                  /\ opts.kind # "rotate" =>
                        succeeded[j].name = targets[succeeded[j].target].name
            /\ \A j \in DOMAIN failed :
                  /\ failed[j].target \in 1..idx
                  /\ failed[j].name = targets[failed[j].target].name)
    /\ [][ (opts.kind \in Kinds /\ remote' # remote) =>
              /\ phase = "Executing"
              /\ call.op \in MutatingOps
              /\ CallIsForTarget(call, targets[idx], keyDetails)
              /\ \A j \in DOMAIN succeeded : succeeded[j].target < idx
              /\ \A j \in DOMAIN failed : failed[j].target < idx ]_vars
    /\ [][ idx' >= idx /\ (targets # <<>> => targets' = targets) ]_vars

C16_Witness ==
    /\ opts.kind = "setLimit"
    /\ phase = "Completed"
    /\ Len(targets) = 2
    /\ Len(succeeded) = 2
    /\ succeeded[1].target = 1
    /\ succeeded[2].target = 2
    /\ KeyOf(remote, 1).limit = 5
    /\ KeyOf(remote, 2).limit = 5

(* The attempt in progress reaches the service, which processes it.        *)
ServedStep == callState = "sending" /\ attempts' = attempts + 1 /\ lastResp' \notin Faults

(* C17: disableKey is idempotent: whenever the service processes the       *)
(* request for a key it holds, whether or not the key is disabled already, *)
(* the call returns without error and the key is disabled afterwards; in a *)
(* disable batch a call that returned puts its target in the succeeded     *)
(* list, every succeeded target is disabled, and no target the service     *)
(* holds fails with a not-found error.                                     *)
C17_DisableIdempotent ==
    /\ [][ (call = disableKey(call.hash) /\ ServedStep /\ HasHash(remote, call.hash)) =>
              /\ callState' = "ok"
              /\ callError' = NoError
              /\ KeyOf(remote', call.hash).disabled
              /\ remote' = Patched(remote, call.hash, "disabled", TRUE) ]_vars
    /\ [][ (opts.kind = "disable" /\ phase = "Executing" /\ callState = "ok") =>
              /\ succeeded' = Append(succeeded, Done(idx, targets[idx].name, 0))
              /\ failed' = failed
              /\ KeyOf(remote, targets[idx].hash).disabled ]_vars
    /\ [](opts.kind = "disable" =>
            /\ \A j \in DOMAIN succeeded :
                  /\ HasHash(remote, targets[succeeded[j].target].hash)
                  /\ KeyOf(remote, targets[succeeded[j].target].hash).disabled
            /\ \A j \in DOMAIN failed :
                  failed[j].error = "Not found"
                     => ~HasHash(remote, targets[failed[j].target].hash))

C17_Witness ==
    /\ opts.kind = "disable"
    /\ phase = "Completed"
    /\ Len(targets) = 2
    /\ targets[1].hash = targets[2].hash
    /\ Len(succeeded) = 2
    /\ KeyOf(remote, targets[1].hash).disabled

(* C18: deleteKeyByHash is not idempotent: when the service processes it   *)
(* for a hash it does not hold (never held, or deleted before) it answers  *)
(* 404, changes nothing, and the call fails with the ApiError of status    *)
(* 404; in a delete batch no hash is deleted twice, a hash the service     *)
(* never held is never in the succeeded list, and of two targets with the  *)
(* same hash the second is in the failed list when the first succeeded.    *)
C18_DeleteNotIdempotent ==
    /\ [][ (call.op = "delete" /\ ServedStep /\ ~HasHash(remote, call.hash)) =>
              /\ lastResp'.status = 404
              /\ remote' = remote
              /\ callState' # "ok" ]_vars
    /\ []((call.op = "delete" /\ callState = "failed" /\ lastResp.status = 404) =>
            /\ callError = WithDetail(Error("ApiError", 404, "Not found"), Field("nested"))
            /\ ~HasHash(remote, call.hash))
    /\ [](opts.kind = "delete" =>
            /\ \A j \in DOMAIN succeeded :
                  /\ HasHash(InitialKeys, targets[succeeded[j].target].hash)
                  /\ ~HasHash(remote, targets[succeeded[j].target].hash)
            /\ \A i, k \in DOMAIN targets :
                  (i < k /\ targets[i].hash = targets[k].hash
                     /\ Entries(succeeded, i) # {} /\ (k < idx \/ phase = "Completed"))
                  => (Entries(failed, k) # {} /\ Entries(succeeded, k) = {}))

C18_Witness ==
    /\ opts.kind = "delete"
    /\ phase = "Completed"
    /\ Len(targets) = 2
    /\ targets[1].hash = targets[2].hash
    /\ Len(succeeded) = 1
    /\ succeeded[1].target = 1
    /\ Len(failed) = 1
    /\ failed[1].target = 2
    /\ failed[1].error = "Not found"

(* C19: deleteKey by name first requests the listing and issues a          *)
(* deleteKeyByHash only when the listing has returned with a key whose     *)
(* name equals the given name exactly, for the hash of the first such key; *)
(* when the listing has no such key it throws "Key not found" and no       *)
(* delete request is sent; nothing but the named key is ever deleted.      *)
C19_DeleteByName ==
    /\ [][ (opts.kind = "deleteByName" /\ Issued) =>
              \/ phase = "Idle" /\ call' = listKeys(FALSE)
              \/ /\ phase = "Finding"
                 /\ call = listKeys(FALSE)
                 /\ callState = "ok"
                 /\ \E i \in DOMAIN callValue.keys :
                       /\ callValue.keys[i].name = opts.name
                       /\ \A j \in 1..(i - 1) : callValue.keys[j].name # opts.name
                       /\ call' = deleteKeyByHash(callValue.keys[i].hash) ]_vars
    /\ [][ (opts.kind = "deleteByName" /\ phase = "Finding" /\ callState = "ok"
              /\ \A i \in DOMAIN callValue.keys : callValue.keys[i].name # opts.name) =>
              /\ phase' = "Failed"
              /\ thrown' = "Key not found"
              /\ callState' = "none" ]_vars
    /\ [](opts.kind = "deleteByName" =>
            /\ requested \subseteq {"list", "delete"}
            /\ "delete" \in requested => "list" \in requested
            /\ thrown = "Key not found" => "delete" \notin requested
            /\ \A i \in DOMAIN InitialKeys :
                  HasHash(remote, InitialKeys[i].hash) \/ InitialKeys[i].name = opts.name
            /\ Len(remote) >= Len(InitialKeys) - 1
            /\ phase = "Completed" => Len(remote) = Len(InitialKeys) - 1)

C19_Witness ==
    /\ opts.kind = "deleteByName"
    /\ opts.name = <<"a", "x">>
    /\ phase = "Completed"
    /\ requested = {"list", "delete"}
    /\ ~HasHash(remote, 1)

(* The selection criterion: the hash equals the given one, or the full     *)
(* name matches the glob pattern.                                          *)
Satisfies(k, o) ==
    IF o.hash # 0 THEN k.hash = o.hash ELSE GlobMatch(k.name, o.pattern)
Satisfying(keys, o) ==
    LET picked == SelectSeq(keys, LAMBDA k : Satisfies(k, o))
    IN  [i \in DOMAIN picked |-> Target(picked[i].name, picked[i].hash, picked[i].limit)]

(* C20 as stated: the selector returns exactly the keys of the listing     *)
(* that satisfy the criterion, in listing order, and it throws its "no key *)
(* found" / "no keys match" error exactly when no key of the listing       *)
(* satisfies it.                                                           *)
C20_SelectsSatisfyingSubsequence ==
    /\ (~opts.fromFile /\ phase = "AwaitingConfirmation") =>
          /\ preview = Satisfying(remote, opts)
          /\ preview # <<>>
    /\ (~opts.fromFile /\ phase = "Failed" /\ thrown = NoneSelectedError(opts)) =>
          Satisfying(remote, opts) = <<>>

(* The error kind of the taxonomy that an answer calls for, and the kind   *)
(* an error of the client stands for: the client has the one class         *)
(* ApiError, told apart by its statusCode and message.                     *)
OutcomeKind(resp) ==
    CASE resp.kind = "timeout" -> "TimeoutError"
      [] resp.kind = "network" -> "UnknownError"
      [] resp.status = 401 -> "AuthError"
      [] resp.status = 404 -> "NotFoundError"
      [] resp.status = 400 -> "BadRequestError"
      [] resp.status = 429 -> "RateLimitError"
      [] resp.status >= 500 -> "ServerError"
      [] OTHER -> "UnknownError"

ErrorKind(err) ==
    CASE err.class # "ApiError" -> "none"
      [] err.status = 401 -> "AuthError"
      [] err.status = 404 -> "NotFoundError"
      [] err.status = 400 -> "BadRequestError"
      [] err.status = 429 -> "RateLimitError"
      [] err.status >= 500 -> "ServerError"
      [] err.status = 408 /\ err.message = "Request timeout" -> "TimeoutError"
      [] OTHER -> "UnknownError"

(* The message the extraction is to give for a body: the nested            *)
(* error.message, else the top-level message, else the text as received.   *)
Extracted(body) ==
    IF body.json /\ body.nested # "" THEN Field(body.nested)
    ELSE IF body.json /\ body.flat # "" THEN Field(body.flat)
    ELSE Text(body.spaced)

(* C21 as stated: a call that has failed throws the error of the kind that *)
(* its last answer calls for (401 AuthError, 404 NotFoundError, 400        *)
(* BadRequestError, 429 RateLimitError and 5xx ServerError once the        *)
(* retries are used up, timeout TimeoutError, anything else UnknownError), *)
(* carrying the HTTP status of the answer and the extracted message.       *)
C21_TaxonomyByOutcome ==
    callState = "failed" =>
        /\ ErrorKind(callError) = OutcomeKind(lastResp)
        /\ lastResp.kind = "http" =>
              /\ callError.status = lastResp.status
              /\ callError.detail = Extracted(lastResp.body)
        /\ (lastResp.kind = "http" /\ lastResp.status \in RETRYABLE_STATUS_CODES) =>
              attempts = Budget + 1

C22_HeadersOnEveryAttempt ==
    /\ [][ attempts' = attempts + 1 =>
              /\ headers.authorization = Bearer(ProvisioningKey)
              /\ headers.contentType = "application/json"
              /\ opts.hasKey ]_vars
    /\ [](callState = "sending" =>
            headers = Headers(Bearer(ProvisioningKey), "application/json"))

C22_Witness ==
    /\ callState = "sending"
    /\ attempts = 2
    /\ retryCount = 2
    /\ call.op = "patchLimit"
    /\ headers = Headers(Bearer(ProvisioningKey), "application/json")

(* C23: for an existing key selected by hash, when the disable command has *)
(* returned with the key in its succeeded list the key is disabled, and    *)
(* when the enable command run after it has returned with the key in its   *)
(* succeeded list the key is not disabled.                                 *)
C23_DisableThenEnable ==
    opts.hash # 0 =>
        /\ (opts.kind = "disable" /\ phase = "Completed" /\ Len(succeeded) = 1) =>
              KeyOf(remote, opts.hash).disabled
        /\ (opts.kind = "enable" /\ phase = "Idle") =>
              KeyOf(remote, opts.hash).disabled
        /\ (opts.kind = "enable" /\ phase = "Completed" /\ Len(succeeded) = 1) =>
              ~KeyOf(remote, opts.hash).disabled

C23_Witness ==
    /\ opts.kind = "enable"
    /\ opts.hash = 1
    /\ phase = "Completed"
    /\ Len(succeeded) = 1
    /\ ~KeyOf(remote, 1).disabled

(* A retry is about to be sent after an answer 429.                        *)
RetryAfter429 ==
    /\ callState = "sending"
    /\ attempts > 0
    /\ lastResp.kind = "http"
    /\ lastResp.status = 429

(* C24 as stated: after a 429 answer with a retry-after or a               *)
(* rate-limit-reset header the wait before the next attempt is the value   *)
(* computed from the header, with no backoff delay in it.                  *)
C24_HeaderWaitAlone ==
    (RetryAfter429 /\ (lastResp.retryAfter # 0 \/ lastResp.reset # 0)) =>
        \E now \in NowValues : waited = calculateRateLimitDelay(lastResp, now)

(* C25: after a 429 answer whose rate-limit-reset time has passed, the     *)
(* wait before the next attempt is at least one second, and so is the      *)
(* delay that calculateRateLimitDelay computes for that answer.            *)
C25_ElapsedResetFloor ==
    /\ (RetryAfter429 /\ lastResp.retryAfter = 0 /\ lastResp.reset # 0) =>
          waited >= MILLISECONDS_PER_SECOND
    /\ (lastResp.status = 429 /\ lastResp.retryAfter = 0 /\ lastResp.reset # 0) =>
          \A now \in NowValues :
             lastResp.reset * MILLISECONDS_PER_SECOND <= now =>
                calculateRateLimitDelay(lastResp, now) >= MILLISECONDS_PER_SECOND

C25_Witness ==
    /\ RetryAfter429
    /\ lastResp.reset = 3
    /\ \E now \in NowValues : lastResp.reset * MILLISECONDS_PER_SECOND <= now
    /\ attempts = 1
    /\ waited >= MILLISECONDS_PER_SECOND

(* min(initialDelay * 2^(k-1), capDelay)                                   *)
BackoffBase(k) == Min(INITIAL_BACKOFF_MS * Pow2(k - 1), MAX_RETRY_DELAY_MS)
WithinBackoff(k, d) == BackoffBase(k) <= d /\ d <= BackoffBase(k) + INITIAL_BACKOFF_MS

(* C26: the wait before retry k is at least min(1000 * 2^(k-1), 30000) ms  *)
(* and at most that plus 1000 ms: for every wait of every call, and for    *)
(* the delay the client computes for every k up to MaxAttempt, which never *)
(* exceeds 31000 ms.                                                       *)
C26_BackoffBounds ==
    /\ callState = "waiting" => WithinBackoff(retryCount, delayMs)
    /\ (callState = "sending" /\ attempts > 0) => WithinBackoff(retryCount, waited)
    /\ \A k \in 1..MaxAttempt, j \in Jitters :
          LET d == Min(MAX_BACKOFF_MS, RetryDelay(k, j))
          IN  /\ WithinBackoff(k, d)
              /\ d <= MAX_RETRY_DELAY_MS + INITIAL_BACKOFF_MS

C26_Witness ==
    /\ callState = "waiting"
    /\ retryCount = 3
    /\ delayMs = 4 * INITIAL_BACKOFF_MS + (INITIAL_BACKOFF_MS - 1)

(* C28: once the loop has started, the run leaves a target only when a     *)
(* request for that target was sent, it leaves the loop only to Completed  *)
(* and only after the last target, and at Completed every target has an    *)
(* entry in one of the result lists, whatever errors earlier targets met.  *)
C28_EveryTargetAttempted ==
    /\ [](opts.kind \in Kinds /\ phase = "Completed" =>
            \A i \in DOMAIN targets :
               Entries(succeeded, i) \cup Entries(failed, i) # {})
    /\ [][ (phase = "Executing" /\ (idx' # idx \/ phase' # "Executing")) =>
              /\ attempts >= 1
              /\ call.op \in requested
              /\ CallIsForTarget(call, targets[idx], keyDetails)
              /\ phase' # "Executing" => (phase' = "Completed" /\ idx = Len(targets)) ]_vars

C28_Witness ==
    /\ phase = "Completed"
    /\ Len(targets) = 2
    /\ Len(failed) >= 1
    /\ failed[1].target = 1
    /\ failed[1].error = "Unauthorized: Invalid API key"
    /\ Entries(succeeded, 2) # {}

(* The place of a state in Idle -> Resolving -> [AwaitingConfirmation] ->  *)
(* Executing -> Completed.                                                 *)
Rank(ph) ==
    CASE ph = "Idle" -> 0
      [] ph = "Resolving" -> 1
      [] ph = "AwaitingConfirmation" -> 2
      [] ph = "Executing" -> 3
      [] ph = "Completed" -> 4
      [] OTHER -> 5

(* C29 as stated: a batch run moves through its states only in the order   *)
(* Idle, Resolving, AwaitingConfirmation, Executing, Completed (or leaves  *)
(* them with an error): no operation request is in progress before         *)
(* Resolving has finished, the run never goes back to an earlier state,    *)
(* and Completed is final.                                                 *)
C29_StatesInOrder ==
    /\ []((opts.kind \in Kinds /\ Rank(phase) <= 2) => call.op \in {"none", "list"})
    /\ [][ opts.kind \in Kinds =>
              /\ Rank(phase') >= Rank(phase)
              /\ phase = "Completed" => phase' = "Completed" ]_vars

(* C30: the retry state belongs to one call: it is zero when a call starts *)
(* and when no call is in progress, so a call that fails after a retryable *)
(* status has made the full number of attempts, whatever the calls before  *)
(* it consumed.                                                            *)
C30_RetryStatePerCall ==
    /\ [](callState = "none" =>
            retryCount = 0 /\ attempts = 0 /\ nWaits = 0 /\ delayMs = 0)
    /\ [][ Issued => retryCount' = 0 /\ nWaits' = 0 /\ delayMs' = 0 ]_vars
    /\ []((callState = "failed" /\ lastResp.kind = "http"
             /\ lastResp.status \in RETRYABLE_STATUS_CODES) =>
            attempts = Budget + 1 /\ nWaits = Budget)

C30_Witness ==
    /\ phase = "Executing"
    /\ idx = 2
    /\ failed # <<>>
    /\ failed[1].error = "API request failed"
    /\ callState = "failed"
    /\ lastResp.status = 503
    /\ attempts = Budget + 1

KeyLines(lines) == SelectSeq(lines, LAMBDA l : l.kind = "key")
MoreLines(lines) == SelectSeq(lines, LAMBDA l : l.kind = "more")

(* C31: when confirmation is requested for N targets the preview lists the *)
(* first min(N, 5) targets of the list in order, each with its name and    *)
(* hash, and a remaining count, equal to N - 5, exactly when N > 5.        *)
C31_PreviewFirstFive ==
    phase = "AwaitingConfirmation" =>
        LET N == Len(preview)
            shown == KeyLines(printed)
            more == MoreLines(printed)
        IN  /\ Len(shown) = Min(N, 5)
            /\ \A i \in DOMAIN shown :
                  shown[i].name = preview[i].name /\ shown[i].hash = preview[i].hash
            /\ (more # <<>>) <=> (N > 5)
            /\ N > 5 => (Len(more) = 1 /\ more[1].count = N - 5)
            /\ N > 5 => printed[Len(printed)].kind = "more"

C31_Witness ==
    /\ phase = "AwaitingConfirmation"
    /\ Len(preview) = 7
    /\ Len(KeyLines(printed)) = 5
    /\ preview[1].hash # preview[2].hash
    /\ MoreLines(printed) # <<>>
    /\ MoreLines(printed)[1].count = 2

(* C32: a set-limit run, selector- or file-driven, whose limit is zero,    *)
(* negative or NaN never sends a limit update and leaves every credential  *)
(* as it was; once the batch function has been called the run has failed   *)
(* with "Limit must be a positive number", and the call of the function    *)
(* sends no request (the only request of such a run is the listing for the *)
(* preview of a selector-driven command without --confirm).                *)
C32_InvalidLimitRejected ==
    /\ []((opts.kind = "setLimit" /\ (opts.limit = NaN \/ opts.limit <= 0)) =>
            /\ "patchLimit" \notin requested
            /\ call.op # "patchLimit"
            /\ phase # "Executing"
            /\ remote = InitialKeys
            /\ requested \subseteq (IF opts.confirm \/ opts.fromFile THEN {} ELSE {"list"})
            /\ ((opts.confirm /\ phase # "Idle") \/ answer = "yes") =>
                  /\ phase = "Failed"
                  /\ thrown = "Limit must be a positive number"
                  /\ callState = "none")
    /\ [][ (thrown' = "Limit must be a positive number" /\ thrown' # thrown) =>
              /\ requested' = requested
              /\ callState \in {"none"}
              /\ remote' = remote ]_vars

C32_Witness ==
    /\ opts.kind = "setLimit"
    /\ opts.limit = NaN
    /\ opts.fromFile
    /\ opts.file # <<>>
    /\ answer = "yes"
    /\ phase = "Failed"
    /\ thrown = "Limit must be a positive number"
    /\ requested = {}

(* The result lists as a function of the target list and the outcomes of   *)
(* the attempts alone: target i is left with a success at the first        *)
(* outcome without error, with a failure at a timeout or at the outcome    *)
(* after which n = Budget retries have been made.                          *)
RECURSIVE Replay(_, _, _, _, _, _)
Replay(list, i, n, outcomes, su, fa) ==
    IF i > Len(list) \/ outcomes = <<>> THEN <<su, fa>>
    ELSE LET r == Head(outcomes)
             err == Thrown(r)
         IN  IF err = NoError
             THEN Replay(list, i + 1, 0, Tail(outcomes),
                         Append(su, Done(i, list[i].name, 0)), fa)
             ELSE IF r.kind = "timeout" \/ n = Budget
             THEN Replay(list, i + 1, 0, Tail(outcomes), su,
                         Append(fa, Failure(i, list[i].name, RequestError(err).message)))
             ELSE Replay(list, i, n + 1, Tail(outcomes), su, fa)

(* C33: the result of a batch run is a function of its target list and of  *)
(* the sequence of outcomes of its attempts: two runs with the same list   *)
(* and the same sequence return the same succeeded and failed lists,       *)
(* whatever jitter each backoff drew.                                      *)
C33_ResultFromResponses ==
    (trace # Unobserved /\ phase = "Completed") =>
        <<succeeded, failed>> = Replay(targets, 1, 0, trace, <<>>, <<>>)

C33_Witness ==
    /\ trace # Unobserved
    /\ phase = "Completed"
    /\ Len(targets) = 2
    /\ Len(trace) = 6
    /\ Len(succeeded) = 1
    /\ Len(failed) = 1
    /\ failed[1].target = 1
    /\ \E k \in DOMAIN trace : trace[k].status = 503

HashesOf(list) == [i \in DOMAIN list |-> list[i].hash]

(* C34 as stated: in a selector-driven run that asked for confirmation the *)
(* loop runs on exactly the keys that were previewed, in the same order.   *)
C34_ExecutesPreviewed ==
    (opts.kind \in Kinds /\ ~opts.fromFile /\ ~opts.confirm
        /\ phase \in {"Executing", "Completed"} /\ answer = "yes")
    => HashesOf(targets) = HashesOf(preview)

Named(keys, n) == {i \in DOMAIN keys : keys[i].name = n}

(* C35 as stated: one createKey call creates at most one credential. The   *)
(* call is the one rotate makes after it deleted the key of that name, so  *)
(* at most one credential of the name exists while the call is in progress *)
(* and when it has ended.                                                  *)
C35_AtMostOneCreated ==
    call.op = "create" => Cardinality(Named(remote, call.name)) <= 1

(* C36: in rotate, when getKey has failed for a target, the loop records   *)
(* the target in the failed list with the error and goes to the next       *)
(* target (or returns) without a delete or create request for it; the      *)
(* credentials of the service are not changed while getKey is in progress  *)
(* nor when its failure is handled.                                        *)
C36_GetFailureSkipsTarget ==
    /\ [][ (opts.kind = "rotate" /\ phase = "Executing" /\ step = "get"
              /\ callState = "failed") =>
              /\ failed' = Append(failed, Failure(idx, targets[idx].name, callError.message))
              /\ succeeded' = succeeded
              /\ call'.op \notin {"delete", "create"}
              /\ IF phase' = "Executing"
                 THEN idx' = idx + 1 /\ call'.op = "get" /\ call'.hash = targets[idx + 1].hash
                 ELSE phase' = "Completed" /\ idx = Len(targets) ]_vars
    /\ [][ (opts.kind = "rotate" /\ phase = "Executing" /\ step = "get") =>
              remote' = remote /\ nextHash' = nextHash ]_vars

C36_Witness ==
    /\ opts.kind = "rotate"
    /\ phase = "Completed"
    /\ Len(targets) = 2
    /\ Len(failed) = 2
    /\ failed[1].error = "Unauthorized: Invalid API key"
    /\ requested = {"get"}
    /\ remote = InitialKeys

HashSet(list) == {list[i].hash : i \in DOMAIN list}
AddressedOps == {"get", "patchDisabled", "patchLimit", "delete"}

(* C37: during the loop of a batch run every get, update and delete        *)
(* request addresses the hash of the target at the loop's position, a hash *)
(* of the resolved list; every credential whose hash is not in the list is *)
(* kept as it is by every step of the run, and a credential that rotate    *)
(* created stays in the service unchanged until the run ends.              *)
C37_OnlyTargetsTouched ==
    /\ []((opts.kind \in Kinds /\ phase = "Executing" /\ call.op \in AddressedOps) =>
            /\ call.hash \in HashSet(targets)
            /\ call.hash = targets[idx].hash)
    /\ [][ opts.kind \in Kinds =>
              \A i \in DOMAIN remote :
                 remote[i].hash \notin HashSet(targets') =>
                    \E j \in DOMAIN remote' : remote'[j] = remote[i] ]_vars
    /\ [](opts.kind = "rotate" =>
            \A j \in DOMAIN succeeded :
               /\ succeeded[j].hash \notin HashSet(targets)
               /\ HasHash(remote, succeeded[j].hash)
               /\ KeyOf(remote, succeeded[j].hash).name = succeeded[j].name)

C37_Witness ==
    /\ opts.kind = "rotate"
    /\ phase = "Completed"
    /\ Len(succeeded) = 2
    /\ HasHash(remote, 4)
    /\ HasHash(remote, 5)
    /\ Len(remote) = 3
    /\ KeyOf(remote, 3) = InitialKeys[3]

(* C38: a batch run that has started its loop eventually reaches Completed *)
(* whatever the attempts are answered with, and no call makes more than    *)
(* Budget + 1 attempts.                                                    *)
C38_BatchTerminates ==
    /\ (phase = "Executing") ~> (phase = "Completed")
    /\ [](attempts <= Budget + 1)

C38_Witness ==
    /\ phase = "Completed"
    /\ Len(targets) = 2
    /\ Len(failed) = 2
    /\ failed[1].error = "Request timeout"
    /\ failed[2].error = "Rate limit exceeded"
    /\ requested = {"patchLimit"}

====
